---------------------------- MODULE Spec2Model ----------------------------
(***************************************************************************)
(* A model of the Nachos file-system core: FileHeader (filehdr.cc) with    *)
(* its free-sector bitmap and sector store, and Directory (directory.cc).  *)
(*                                                                         *)
(* The layout constants come from filehdr.h / directory.h / disk.h, which  *)
(* fix SectorSize = 128, NumDirect = 10, NumSectorForBlock = 32 and a disk *)
(* of 1024 sectors.  They are scaled down here so that every case of the   *)
(* allocation algorithm (direct only, one block, several blocks, more      *)
(* blocks than IndirectSectors has slots, a disk that is too small) is     *)
(* reached by exhaustive search.  Nothing below depends on the values.     *)
(***************************************************************************)
EXTENDS Integers, Sequences, FiniteSets, TLC

\* Bytes in one disk sector.
SectorSize == 2
\* Slots of FileHeader::DirectSectors.
NumDirect == 2
\* Slots of FileHeader::IndirectSectors.
NumIndirect == 2
\* Sector numbers held by one indirection block.
NumSectorForBlock == 2

\* Sectors covered by the free-sector bitmap.
NumDiskSectors == 12
\* FileHeader objects of the model.
NumHdrs == 2
\* The file sizes handed to Allocate: every SizeStep-th up to MaxFileSize.
MaxFileSize == 15
SizeStep == 3
\* FileHeader operations in one run of the model.
MaxOps == 3
\* Directory operations in one run of the model.
MaxDirOps == 4

\* Longest file name a DirectoryEntry keeps (directory.h: 9).
FileNameMaxLen == 2
\* Directory::tableSize, the constructor's argument.
TableSize == 2

\* Threads the scheduler sees.
NumThreads == 3
\* The priority bounds of the ready queues L1 and L2 (scheduler.cc: 68, 75).
L1Bound == 100
L2Bound == 50
\* What Thread::IncreaseWaitingTime adds to the priority of a thread that has
\* waited long enough, and the priority it stops at.
AgingStep == 10
MaxPriority == 149
\* Calls of AgingThread in one run of the model.
MaxAging == 1

VARIABLES
    hdr,        \* hdr[h]: the in-memory FileHeader object h
    freeMap,    \* the set of sectors marked in the bitmap
    disk,       \* disk[s]: the words last written to sector s (<<>>: never written)
    aborted,    \* an ASSERT failed: the machine has stopped
    live,       \* live[h]: object h holds sectors of a successful Allocate
    written,    \* written[s]: the object, and its live flag, at the last WriteBack(s)
    last,       \* the last FileHeader operation, with the state it started from
    nOps,       \* the number of operations so far
    table,      \* the in-memory table of the Directory
    dirFile,    \* the contents of the file that backs the Directory
    dlast,      \* the last Directory operation, with the table it started from
    adds,       \* adds[name]: the sector of the standing successful Add(name)
    pc,         \* pc[h]: where the Allocate that runs on header h stands
    loc,        \* loc[h]: the local variables of that Allocate
    exclusion,  \* whether a lock around each Allocate call is in use
    ReadyList_L1,   \* the ready queues of the scheduler, front first
    ReadyList_L2,
    ReadyList_L3,
    priority,   \* priority[t]: what thread t's GetPriority returns
    status,     \* status[t]: thread t's status
    slast,      \* the last Scheduler operation
    currentThread,  \* kernel->currentThread
    toBeDestroyed,  \* Scheduler::toBeDestroyed, NULL when there is none
    finished,   \* the threads Run was told are finishing, not deleted yet
    deleted,    \* the threads CheckToBeDestroyed has deleted
    afterSwitch \* Run has switched threads, CheckToBeDestroyed is still to come

fhVars == <<hdr, freeMap, disk, aborted, live, written, last>>
dirVars == <<table, dirFile, dlast, adds>>
concVars == <<pc, loc, exclusion>>
runVars == <<currentThread, toBeDestroyed, finished, deleted, afterSwitch>>
schedVars ==
    <<ReadyList_L1, ReadyList_L2, ReadyList_L3, priority, status, slast,
      currentThread, toBeDestroyed, finished, deleted, afterSwitch>>
vars == <<hdr, freeMap, disk, aborted, live, written, last, nOps, table, dirFile, dlast, adds,
         pc, loc, exclusion,
         ReadyList_L1, ReadyList_L2, ReadyList_L3, priority, status, slast,
         currentThread, toBeDestroyed, finished, deleted, afterSwitch>>

Hdrs == 1..NumHdrs
Sectors == 0..(NumDiskSectors - 1)
\* The sector the file system keeps a FileHeader in.  It reserves header
\* sectors itself before it calls Allocate; the model keeps the sector apart
\* from the sectors that Allocate and Deallocate hand out and take back.
HdrSectors == {NumDiskSectors}
FileSizes == {n \in 0..MaxFileSize : n % SizeStep = 0}

Min(a, b) == IF a < b THEN a ELSE b
Max(a, b) == IF a < b THEN b ELSE a
Range(s) == {s[i] : i \in DOMAIN s}
NoDup(s) == \A i, j \in DOMAIN s : i # j => s[i] # s[j]

divRoundUp(n, s) == (n \div s) + (IF n % s > 0 THEN 1 ELSE 0)

-----------------------------------------------------------------------------
(* The free-sector bitmap. *)

NumClear(map) == NumDiskSectors - Cardinality(map)

\* Bitmap::Test; a sector number outside the bitmap fails its range assertion.
InMap(s) == s \in Sectors
Test(map, s) == s \in map

\* Bitmap::FindAndSet: the sector it returns, -1 when no bit is clear.
FindClear(map) ==
    IF Sectors \ map = {} THEN -1
    ELSE CHOOSE s \in Sectors \ map : \A t \in Sectors \ map : s <= t

-----------------------------------------------------------------------------
(* The sector store. *)

\* Word i (from 0) of a sector; a sector never written reads as zeros.
Word(content, i) == IF i + 1 <= Len(content) THEN content[i + 1] ELSE 0
ReadSector(dsk, s) == IF s \in DOMAIN dsk THEN dsk[s] ELSE <<>>
ReadBlock(dsk, s) == [j \in 1..NumSectorForBlock |-> Word(ReadSector(dsk, s), j - 1)]

-----------------------------------------------------------------------------
(* FileHeader. *)

\* The object as the constructor leaves it.  beyond holds the words that
\* Allocate stored past the end of IndirectSectors.
FreshHdr ==
    [numBytes |-> -1, numSectors |-> -1,
     numDirectSectors |-> -1, numIndirectSectors |-> -1,
     DirectSectors |-> [i \in 1..NumDirect |-> -1],
     IndirectSectors |-> [i \in 1..NumIndirect |-> -1],
     beyond |-> <<>>]

\* What a read past the end of the object may return: the word stored there
\* (Kept), or any other value the memory has taken since.
OobReads ==
    {[kept |-> TRUE, val |-> 0]} \cup [kept : {FALSE}, val : {-1} \cup Sectors]

\* Word k (from 0) past the end of IndirectSectors, under the choice g.
BeyondAt(hd, k, g) ==
    IF g.kept /\ k + 1 <= Len(hd.beyond) THEN hd.beyond[k + 1] ELSE g.val

\* DirectSectors[i] and IndirectSectors[i] as the compiled code reads them:
\* the two arrays are the last members of the object and lie back to back.
DirectAt(hd, i, g) ==
    IF i < NumDirect THEN hd.DirectSectors[i + 1]
    ELSE IF i < NumDirect + NumIndirect THEN hd.IndirectSectors[i - NumDirect + 1]
    ELSE BeyondAt(hd, i - NumDirect - NumIndirect, g)

IndirectAt(hd, i, g) ==
    IF i < NumIndirect THEN hd.IndirectSectors[i + 1]
    ELSE BeyondAt(hd, i - NumIndirect, g)

\* IndirectSectors[i] = s as the compiled code stores it.
SetIndirect(hd, i, s) ==
    IF i < NumIndirect THEN [hd EXCEPT !.IndirectSectors[i + 1] = s]
    ELSE [hd EXCEPT !.beyond = Append(@, s)]

\* FileHeader::Allocate, lines 70-74: the sizes and the free-count check.
AllocSizes(hd, fileSize) ==
    [hd EXCEPT !.numBytes = fileSize,
               !.numSectors = divRoundUp(fileSize, SectorSize)]

\* The free-count check as it would be with the bound off by one.
AllocEnoughOffByOne(map, hd) == ~(NumClear(map) + 1 < hd.numSectors)

AllocEnough(map, hd) == ~(NumClear(map) < hd.numSectors)

\* The counts as they would be with the number of blocks rounded down.
AllocCountsRoundDown(hd) ==
    IF hd.numSectors > NumDirect
    THEN [hd EXCEPT !.numDirectSectors = NumDirect,
                    !.numIndirectSectors =
                        (hd.numSectors - NumDirect) \div NumSectorForBlock,
                    !.beyond = <<>>]
    ELSE [hd EXCEPT !.numDirectSectors = hd.numSectors,
                    !.numIndirectSectors = 0,
                    !.beyond = <<>>]

\* Lines 76-82: how many direct sectors and how many indirection blocks.
AllocCounts(hd) ==
    IF hd.numSectors > NumDirect
    THEN [hd EXCEPT !.numDirectSectors = NumDirect,
                    !.numIndirectSectors =
                        divRoundUp(hd.numSectors - NumDirect, NumSectorForBlock),
                    !.beyond = <<>>]
    ELSE [hd EXCEPT !.numDirectSectors = hd.numSectors,
                    !.numIndirectSectors = 0,
                    !.beyond = <<>>]

\* One FindAndSet with the ASSERT that follows it: st.found is the sector,
\* and st.abort is set when the bitmap had no clear bit.
FindAndSet(st) ==
    LET s == FindClear(st.map) IN
    IF s < 0
    THEN [st EXCEPT !.found = s, !.abort = TRUE]
    ELSE [st EXCEPT !.found = s, !.map = @ \cup {s}, !.marked = Append(@, s)]

\* Lines 85-90: the direct sectors, from index i on.
RECURSIVE AllocDirect(_, _)
AllocDirect(st, i) ==
    IF st.abort \/ ~(i < st.hd.numDirectSectors) THEN st
    ELSE LET t == FindAndSet(st) IN
         AllocDirect([t EXCEPT !.hd.DirectSectors[i + 1] = t.found], i + 1)

\* Lines 98-101: the data sectors of one indirection block, from entry j on.
RECURSIVE AllocBlock(_, _)
AllocBlock(st, j) ==
    IF st.abort \/ ~(j < NumSectorForBlock) THEN st
    ELSE LET t == FindAndSet(st) IN
         AllocBlock([t EXCEPT !.blk[j + 1] = t.found], j + 1)

\* Lines 93-103: the indirection blocks, from index i on.  Each block is
\* written to its sector as soon as it is filled.
RECURSIVE AllocIndirect(_, _)
AllocIndirect(st, i) ==
    IF st.abort \/ ~(i < st.hd.numIndirectSectors) THEN st
    ELSE LET t == FindAndSet(st)
             u == [t EXCEPT !.hd = SetIndirect(t.hd, i, t.found)]
         IN  IF u.abort THEN u
             ELSE LET v == AllocBlock(u, 0) IN
                  IF v.abort THEN v
                  ELSE AllocIndirect(
                           [v EXCEPT !.dsk[u.found] = v.blk], i + 1)

\* The whole of FileHeader::Allocate on header object hd0: the header, the
\* bitmap and the disk it leaves, what it returned ("true", "false", or
\* "abort" for a failed ASSERT) and the sectors it marked, in order.
AllocateRun(hd0, map0, dsk0, fileSize) ==
    LET hd1 == AllocSizes(hd0, fileSize)
        st0 == [hd |-> hd1, map |-> map0, dsk |-> dsk0, marked |-> <<>>,
                abort |-> FALSE, found |-> -1,
                blk |-> [j \in 1..NumSectorForBlock |-> 0]]
    IN  IF ~AllocEnough(map0, hd1)
        THEN [st0 EXCEPT !.abort = FALSE] @@ [ret |-> "false"]
        ELSE LET st1 == AllocIndirect(
                            AllocDirect([st0 EXCEPT !.hd = AllocCounts(hd1)], 0), 0)
             IN  st1 @@ [ret |-> IF st1.abort THEN "abort" ELSE "true"]

\* Clearing a sector as it would be without the ASSERT of lines 117 and 128.
ClearUnchecked(st, s) ==
    [st EXCEPT !.map = @ \ {s}, !.cleared = Append(@, s)]

\* Bitmap::Test and Bitmap::Clear both assert that the sector number lies in
\* the bitmap; Deallocate asserts that the bit is set before it clears it.
ClearChecked(st, s) ==
    IF ~InMap(s) \/ ~Test(st.map, s)
    THEN [st EXCEPT !.abort = TRUE]
    ELSE [st EXCEPT !.map = @ \ {s}, !.cleared = Append(@, s)]

\* FileHeader::Deallocate, lines 116-119: the direct sectors, from index i on.
RECURSIVE DeallocDirect(_, _, _)
DeallocDirect(st, i, g) ==
    IF st.abort \/ ~(i < st.hd.numDirectSectors) THEN st
    ELSE DeallocDirect(ClearChecked(st, DirectAt(st.hd, i, g)), i + 1, g)

\* Lines 127-130: the sectors an indirection block names, from entry j on.
RECURSIVE DeallocBlock(_, _, _)
DeallocBlock(st, blk, j) ==
    IF st.abort \/ ~(j < NumSectorForBlock) THEN st
    ELSE DeallocBlock(ClearChecked(st, blk[j + 1]), blk, j + 1)

\* Lines 122-133: the indirection blocks, from index i on.  The block's own
\* sector is tested first and cleared last.
RECURSIVE DeallocIndirect(_, _, _)
DeallocIndirect(st, i, g) ==
    IF st.abort \/ ~(i < st.hd.numIndirectSectors) THEN st
    ELSE LET s == IndirectAt(st.hd, i, g) IN
         IF ~InMap(s) \/ ~Test(st.map, s)
         THEN [st EXCEPT !.abort = TRUE]
         ELSE LET u == DeallocBlock(st, ReadBlock(st.dsk, s), 0) IN
              IF u.abort THEN u
              ELSE DeallocIndirect(
                       [u EXCEPT !.map = @ \ {s}, !.cleared = Append(@, s)],
                       i + 1, g)

\* The whole of FileHeader::Deallocate on header object hd: the bitmap it
\* leaves, whether an ASSERT failed, and the sectors it cleared, in order.
DeallocateRun(hd, map0, dsk, g) ==
    DeallocIndirect(
        DeallocDirect([hd |-> hd, map |-> map0, dsk |-> dsk,
                       cleared |-> <<>>, abort |-> FALSE], 0, g),
        0, g)

\* Whether Deallocate or ByteToSector on hd reads past the end of the object.
ReadsBeyond(hd) ==
    \/ hd.numDirectSectors > NumDirect + NumIndirect
    \/ hd.numIndirectSectors > NumIndirect

ReadChoices(hd) ==
    IF ReadsBeyond(hd) THEN OobReads ELSE {[kept |-> TRUE, val |-> 0]}

\* The words of the object as WriteBack hands them to WriteSector.
HdrWords(hd) ==
    <<hd.numBytes, hd.numSectors, hd.numDirectSectors, hd.numIndirectSectors>>
        \o hd.DirectSectors \o hd.IndirectSectors

\* FileHeader::FetchFrom, line 143: the object overwritten by the sector.
HdrOfWords(hd, w) ==
    [hd EXCEPT !.numBytes = Word(w, 0), !.numSectors = Word(w, 1),
               !.numDirectSectors = Word(w, 2), !.numIndirectSectors = Word(w, 3),
               !.DirectSectors = [i \in 1..NumDirect |-> Word(w, 3 + i)],
               !.IndirectSectors =
                   [i \in 1..NumIndirect |-> Word(w, 3 + NumDirect + i)]]

\* Lines 145-149: the index of the first -1 in IndirectSectors, from n on.
RECURSIVE ScanIndirect(_, _)
ScanIndirect(hd, n) ==
    IF ~(n < NumIndirect) THEN n
    ELSE IF hd.IndirectSectors[n + 1] = -1 THEN n
    ELSE ScanIndirect(hd, n + 1)

\* Lines 145-151: the decode step of FetchFrom.
Decode(hd) ==
    LET n == ScanIndirect(hd, 0) IN
    [hd EXCEPT !.numIndirectSectors = n,
               !.numDirectSectors = IF n # 0 THEN NumDirect ELSE hd.numSectors]

FetchRun(hd, dsk, sector) == Decode(HdrOfWords(hd, ReadSector(dsk, sector)))

\* ByteToSector as it would be if the offset into the indirection blocks
\* were not taken relative to the end of the direct sectors.
ByteToSectorViaWholeOffset(hd, dsk, offset, g) ==
    IF offset < SectorSize * hd.numDirectSectors
    THEN DirectAt(hd, offset \div SectorSize, g)
    ELSE LET IndirectSector == offset \div (SectorSize * NumSectorForBlock)
             blk == ReadBlock(dsk, IndirectAt(hd, IndirectSector, g))
         IN  blk[((offset \div SectorSize) % NumSectorForBlock) + 1]

\* FileHeader::ByteToSector; g decides a read past the end of the object.
ByteToSectorVia(hd, dsk, offset, g) ==
    IF offset < SectorSize * hd.numDirectSectors
    THEN DirectAt(hd, offset \div SectorSize, g)
    ELSE LET rest == offset - SectorSize * hd.numDirectSectors
             IndirectSector == rest \div (SectorSize * NumSectorForBlock)
             blk == ReadBlock(dsk, IndirectAt(hd, IndirectSector, g))
         IN  blk[((rest \div SectorSize) % NumSectorForBlock) + 1]

ByteToSector(hd, dsk, offset) ==
    ByteToSectorVia(hd, dsk, offset, [kept |-> TRUE, val |-> 0])

-----------------------------------------------------------------------------
(* The FileHeader operations as steps of the machine. *)

NoPrev ==
    [op |-> "none", h |-> 0, ret |-> "none", hdr0 |-> FreshHdr, map0 |-> {}]

NoOp ==
    [op |-> "none", h |-> 0, arg |-> 0, ret |-> "none",
     hdr0 |-> FreshHdr, map0 |-> {}, marked |-> <<>>, cleared |-> <<>>,
     prev |-> NoPrev]

\* The record of an operation on header h that starts in the current state.
OpRec(op, h, arg, ret, marked, cleared) ==
    [op |-> op, h |-> h, arg |-> arg, ret |-> ret,
     hdr0 |-> hdr[h], map0 |-> freeMap, marked |-> marked, cleared |-> cleared,
     prev |-> [op |-> last.op, h |-> last.h, ret |-> last.ret,
               hdr0 |-> last.hdr0, map0 |-> last.map0]]

\* A failed ASSERT stops the machine.
CanStep == ~aborted /\ nOps < MaxOps

\* Every FileHeader operation counts as one step and leaves the Directory alone.
Tick ==
    /\ nOps' = nOps + 1
    /\ UNCHANGED dirVars
    /\ UNCHANGED concVars
    /\ UNCHANGED schedVars

Construct(h) ==
    /\ CanStep
    /\ Tick
    /\ hdr' = [hdr EXCEPT ![h] = FreshHdr]
    /\ live' = [live EXCEPT ![h] = FALSE]
    /\ last' = OpRec("Construct", h, 0, "void", <<>>, <<>>)
    /\ UNCHANGED <<freeMap, disk, aborted, written>>

Allocate(h, fileSize) ==
    /\ CanStep
    /\ Tick
    /\ LET r == AllocateRun(hdr[h], freeMap, disk, fileSize) IN
       /\ hdr' = [hdr EXCEPT ![h] = r.hd]
       /\ freeMap' = r.map
       /\ disk' = r.dsk
       /\ aborted' = r.abort
       /\ live' = [live EXCEPT ![h] = IF r.ret = "false" THEN @ ELSE r.ret = "true"]
       /\ last' = OpRec("Allocate", h, fileSize, r.ret, r.marked, <<>>)
    /\ UNCHANGED written

Deallocate(h, g) ==
    /\ CanStep
    /\ g \in ReadChoices(hdr[h])
    /\ Tick
    /\ LET r == DeallocateRun(hdr[h], freeMap, disk, g) IN
       /\ freeMap' = r.map
       /\ aborted' = r.abort
       /\ last' = OpRec("Deallocate", h, 0,
                        IF r.abort THEN "abort" ELSE "void", <<>>, r.cleared)
    /\ live' = [live EXCEPT ![h] = FALSE]
    /\ UNCHANGED <<hdr, disk, written>>

WriteBack(h, sector) ==
    /\ CanStep
    /\ Tick
    /\ disk' = [disk EXCEPT ![sector] = HdrWords(hdr[h])]
    /\ written' = [written EXCEPT ![sector] = [hd |-> hdr[h], live |-> live[h]]]
    /\ last' = OpRec("WriteBack", h, sector, "void", <<>>, <<>>)
    /\ UNCHANGED <<hdr, freeMap, aborted, live>>

FetchFrom(h, sector) ==
    /\ CanStep
    /\ Tick
    /\ hdr' = [hdr EXCEPT ![h] = FetchRun(hdr[h], disk, sector)]
    /\ live' = [live EXCEPT ![h] = written[sector].live]
    /\ last' = OpRec("FetchFrom", h, sector, "void", <<>>, <<>>)
    /\ UNCHANGED <<freeMap, disk, aborted, written>>

\* The file system's own use of a FileHeader object: Allocate on an object
\* that holds no sectors, Deallocate on one that does.
AllocateNew(h, fileSize) == ~live[h] /\ Allocate(h, fileSize)

DeallocateLive(h, g) == live[h] /\ Deallocate(h, g)

NextAD ==
    \/ \E h \in Hdrs, fileSize \in FileSizes : AllocateNew(h, fileSize)
    \/ \E h \in Hdrs, g \in OobReads : DeallocateLive(h, g)

NextFH ==
    \/ \E h \in Hdrs : Construct(h)
    \/ \E h \in Hdrs, fileSize \in FileSizes : Allocate(h, fileSize)
    \/ \E h \in Hdrs, g \in OobReads : Deallocate(h, g)
    \/ \E h \in Hdrs, sector \in HdrSectors : WriteBack(h, sector)
    \/ \E h \in Hdrs, sector \in HdrSectors : FetchFrom(h, sector)

-----------------------------------------------------------------------------
(* FileHeader::Allocate statement by statement, for two callers at once. *)

\* The two threads that call Allocate, each on its own FileHeader object.
Callers == {h \in Hdrs : h <= 2}

\* The local variables of an Allocate: the loop indices i and j, the buffer
\* SectorForIndirect, the sector of the block being filled, and (history) the
\* sectors this call has marked.
NoLoc ==
    [i |-> 0, j |-> 0, blk |-> [k \in 1..NumSectorForBlock |-> 0],
     blkSector |-> -1, marked |-> <<>>]

\* An Allocate between its free-count check and its return.
Running(h) == pc[h] \in {"direct", "indirect", "block"}

\* With the lock in use a caller runs only while no other Allocate is under way.
MayRun(h) ==
    /\ ~aborted
    /\ exclusion => \A o \in Callers \ {h} : ~Running(o)

\* The loop heads of lines 85 and 93: where an Allocate on hd goes on once
\* its direct loop stands at index i, or its indirect loop at index i.
AtDirect(hd, i) ==
    IF i < hd.numDirectSectors THEN "direct"
    ELSE IF 0 < hd.numIndirectSectors THEN "indirect"
    ELSE "done"

AtIndirect(hd, i) == IF i < hd.numIndirectSectors THEN "indirect" ELSE "done"

\* One freeMap->FindAndSet() of caller h with the ASSERT that follows it.
FindAndSetBy(h) ==
    FindAndSet([map |-> freeMap, marked |-> loc[h].marked,
                found |-> -1, abort |-> FALSE])

ConcFrame ==
    /\ UNCHANGED <<live, written, last, nOps, exclusion>>
    /\ UNCHANGED dirVars
    /\ UNCHANGED schedVars

\* Lines 70-82: the sizes, the free-count check and the counts.
AllocCheck(h, fileSize) ==
    /\ MayRun(h)
    /\ pc[h] = "idle"
    /\ LET hd1 == AllocSizes(hdr[h], fileSize)
           hd2 == AllocCounts(hd1)
       IN  IF ~AllocEnough(freeMap, hd1)
           THEN /\ hdr' = [hdr EXCEPT ![h] = hd1]
                /\ pc' = [pc EXCEPT ![h] = "false"]
           ELSE /\ hdr' = [hdr EXCEPT ![h] = hd2]
                /\ pc' = [pc EXCEPT ![h] = AtDirect(hd2, 0)]
    /\ UNCHANGED <<freeMap, disk, aborted, loc>>
    /\ ConcFrame

\* Lines 86-89: one pass of the direct loop.
AllocDirectStep(h) ==
    /\ MayRun(h)
    /\ pc[h] = "direct"
    /\ LET t == FindAndSetBy(h)
           i == loc[h].i
       IN  /\ freeMap' = t.map
           /\ aborted' = t.abort
           /\ IF t.abort
              THEN /\ pc' = [pc EXCEPT ![h] = "abort"]
                   /\ UNCHANGED <<hdr, loc>>
              ELSE /\ hdr' = [hdr EXCEPT ![h].DirectSectors[i + 1] = t.found]
                   /\ pc' = [pc EXCEPT ![h] = AtDirect(hdr[h], i + 1)]
                   /\ loc' = [loc EXCEPT ![h].marked = t.marked,
                                         ![h].i = IF AtDirect(hdr[h], i + 1) = "direct"
                                                  THEN i + 1 ELSE 0]
    /\ UNCHANGED disk
    /\ ConcFrame

\* Lines 94-95: the sector of the next indirection block.
AllocIndirectStep(h) ==
    /\ MayRun(h)
    /\ pc[h] = "indirect"
    /\ LET t == FindAndSetBy(h) IN
       /\ freeMap' = t.map
       /\ aborted' = t.abort
       /\ IF t.abort
          THEN /\ pc' = [pc EXCEPT ![h] = "abort"]
               /\ UNCHANGED <<hdr, loc>>
          ELSE /\ hdr' = [hdr EXCEPT ![h] = SetIndirect(@, loc[h].i, t.found)]
               /\ pc' = [pc EXCEPT ![h] = "block"]
               /\ loc' = [loc EXCEPT ![h].marked = t.marked,
                                     ![h].blkSector = t.found,
                                     ![h].j = 0]
    /\ UNCHANGED disk
    /\ ConcFrame

\* Lines 98-102: one pass of the loop over SectorForIndirect; the block is
\* written to its sector after the last pass.
AllocBlockStep(h) ==
    /\ MayRun(h)
    /\ pc[h] = "block"
    /\ LET t == FindAndSetBy(h)
           j == loc[h].j
           blk == [loc[h].blk EXCEPT ![j + 1] = t.found]
       IN  /\ freeMap' = t.map
           /\ aborted' = t.abort
           /\ IF t.abort
              THEN /\ pc' = [pc EXCEPT ![h] = "abort"]
                   /\ UNCHANGED <<disk, loc>>
              ELSE IF j + 1 < NumSectorForBlock
              THEN /\ pc' = pc
                   /\ loc' = [loc EXCEPT ![h].marked = t.marked,
                                         ![h].blk = blk, ![h].j = j + 1]
                   /\ UNCHANGED disk
              ELSE /\ disk' = [disk EXCEPT ![loc[h].blkSector] = blk]
                   /\ pc' = [pc EXCEPT ![h] = AtIndirect(hdr[h], loc[h].i + 1)]
                   /\ loc' = [loc EXCEPT ![h].marked = t.marked,
                                         ![h].blk = blk, ![h].j = 0,
                                         ![h].i = loc[h].i + 1]
    /\ UNCHANGED hdr
    /\ ConcFrame

NextConc ==
    \/ \E h \in Callers, fileSize \in FileSizes : AllocCheck(h, fileSize)
    \/ \E h \in Callers : AllocDirectStep(h)
    \/ \E h \in Callers : AllocIndirectStep(h)
    \/ \E h \in Callers : AllocBlockStep(h)

-----------------------------------------------------------------------------
(* Directory. *)

\* A name is a C string: its characters, without the closing NUL.  The names
\* handed to the Directory: two short ones, one of exactly FileNameMaxLen
\* characters and two longer ones that agree with it on those characters.
Names == {<<1>>, <<2>>, <<1, 2>>, <<1, 2, 3>>, <<1, 2, 4>>}
\* The (sector, isDirectory) pairs handed to Add.
AddArgs == {<<17, FALSE>>, <<22, TRUE>>}

NUL == 0
\* Character i (from 1) of a C string or of a name buffer.
CharAt(s, i) == IF i <= Len(s) THEN s[i] ELSE NUL

\* The name buffer of a DirectoryEntry: FileNameMaxLen + 1 bytes.
EmptyName == [i \in 1..(FileNameMaxLen + 1) |-> NUL]

\* DirectoryEntry::DirectoryEntry.
FreshEntry ==
    [inUse |-> FALSE, isDirectory |-> FALSE, sector |-> -1, name |-> EmptyName]

\* Directory::Directory(size).
FreshTable == [i \in 1..TableSize |-> FreshEntry]

\* The comparison as strcmp would make it: to the end of the strings.
RECURSIVE StrEqWhole(_, _, _, _)
StrEqWhole(a, b, i, n) ==
    IF CharAt(a, i) # CharAt(b, i) THEN FALSE
    ELSE IF CharAt(a, i) = NUL THEN TRUE
    ELSE StrEqWhole(a, b, i + 1, n)

\* strncmp(a, b, n) == 0, comparing from character i on.
RECURSIVE StrnEq(_, _, _, _)
StrnEq(a, b, i, n) ==
    IF i > n THEN TRUE
    ELSE IF CharAt(a, i) # CharAt(b, i) THEN FALSE
    ELSE IF CharAt(a, i) = NUL THEN TRUE
    ELSE StrnEq(a, b, i + 1, n)

\* strncpy(dst, src, n): n bytes of dst are written, NULs once src has ended.
Strncpy(dst, src, n) ==
    [i \in DOMAIN dst |-> IF i <= n THEN CharAt(src, i) ELSE dst[i]]

\* Directory::FindIndex: the index (from 0) of the first in-use entry whose
\* name matches, -1 when there is none.
RECURSIVE FindIndexFrom(_, _, _)
FindIndexFrom(tbl, name, i) ==
    IF ~(i < Len(tbl)) THEN -1
    ELSE IF tbl[i + 1].inUse /\ StrnEq(tbl[i + 1].name, name, 1, FileNameMaxLen)
         THEN i
         ELSE FindIndexFrom(tbl, name, i + 1)

\* FindIndex as it would be if its loop looked at slot 0 only.
FindIndexFirstSlotOnly(tbl, name) ==
    IF Len(tbl) > 0 /\ tbl[1].inUse /\ StrnEq(tbl[1].name, name, 1, FileNameMaxLen)
    THEN 0
    ELSE -1

FindIndex(tbl, name) == FindIndexFrom(tbl, name, 0)

\* Directory::Find.
Find(tbl, name) ==
    LET i == FindIndex(tbl, name) IN
    IF i # -1 THEN tbl[i + 1].sector ELSE -1

\* Directory::Add, lines 124-134: the first slot not in use, from index i on.
RECURSIVE AddFrom(_, _, _, _, _)
AddFrom(tbl, name, newSector, isDirectory, i) ==
    IF ~(i < Len(tbl)) THEN [tbl |-> tbl, ret |-> FALSE]
    ELSE IF ~tbl[i + 1].inUse
         THEN [tbl |-> [tbl EXCEPT ![i + 1] =
                           [inUse |-> TRUE,
                            name |-> Strncpy(@.name, name, FileNameMaxLen),
                            sector |-> newSector,
                            isDirectory |-> isDirectory]],
               ret |-> TRUE]
         ELSE AddFrom(tbl, name, newSector, isDirectory, i + 1)

\* Add as it would be with the scan for a free slot left out: the entry
\* goes into slot 0 whether or not that slot is in use.
AddRunFirstSlot(tbl, name, newSector, isDirectory) ==
    IF FindIndex(tbl, name) # -1
    THEN [tbl |-> tbl, ret |-> FALSE]
    ELSE [tbl |-> [tbl EXCEPT ![1] =
                      [inUse |-> TRUE,
                       name |-> Strncpy(@.name, name, FileNameMaxLen),
                       sector |-> newSector,
                       isDirectory |-> isDirectory]],
          ret |-> TRUE]

\* Add as it would be without the duplicate check of line 121.
AddRunNoDuplicateCheck(tbl, name, newSector, isDirectory) ==
    AddFrom(tbl, name, newSector, isDirectory, 0)

\* Directory::Add: the table it leaves and what it returned.
AddRun(tbl, name, newSector, isDirectory) ==
    IF FindIndex(tbl, name) # -1
    THEN [tbl |-> tbl, ret |-> FALSE]
    ELSE AddFrom(tbl, name, newSector, isDirectory, 0)

\* Remove as it would be if it reported success and left the slot in use.
RemoveRunKeepsSlot(tbl, name) ==
    [tbl |-> tbl, ret |-> FindIndex(tbl, name) # -1]

\* Remove as it would be if it reset the whole entry, sector included.
RemoveRunResetsEntry(tbl, name) ==
    LET i == FindIndex(tbl, name) IN
    IF i = -1 THEN [tbl |-> tbl, ret |-> FALSE]
    ELSE [tbl |-> [tbl EXCEPT ![i + 1] = FreshEntry], ret |-> TRUE]

\* Directory::Remove: the table it leaves and what it returned.
RemoveRun(tbl, name) ==
    LET i == FindIndex(tbl, name) IN
    IF i = -1 THEN [tbl |-> tbl, ret |-> FALSE]
    ELSE [tbl |-> [tbl EXCEPT ![i + 1].inUse = FALSE,
                              ![i + 1].name = EmptyName],
          ret |-> TRUE]

\* OpenFile::ReadAt into the table: the entries the file holds replace the
\* table's; a file shorter than the table leaves the rest as it was.
ReadTable(tbl, file) ==
    [i \in DOMAIN tbl |-> IF i <= Len(file) THEN file[i] ELSE tbl[i]]

-----------------------------------------------------------------------------
(* The Directory operations as steps of the machine. *)

DirRec(op, name, args, ret) ==
    [op |-> op, name |-> name, sector |-> args[1], isDirectory |-> args[2],
     ret |-> ret, table0 |-> table, file0 |-> dirFile,
     map0 |-> freeMap, disk0 |-> disk, at |-> nOps + 1]

NoArgs == <<-1, FALSE>>

\* Two names that strncmp cannot tell apart within FileNameMaxLen characters.
SameStored(a, b) == StrnEq(a, b, 1, FileNameMaxLen)

\* The history of the successful Adds: adds[n].sector is the sector of the
\* last Add(n, ...) that returned true, -1 when there was none or when a
\* Remove(n) has returned true since; adds[n].alias tells that since that Add
\* a Remove of a different name that SameStored(n, _) returned true.
NoAdd == [sector |-> -1, alias |-> FALSE]

AddsAfterAdd(name, newSector, ret) ==
    IF ret THEN [adds EXCEPT ![name] = [sector |-> newSector, alias |-> FALSE]]
    ELSE adds

AddsAfterRemove(name, ret) ==
    IF ~ret THEN adds
    ELSE [n \in Names |->
            IF n = name THEN NoAdd
            ELSE IF adds[n].sector # -1 /\ SameStored(n, name)
                 THEN [adds[n] EXCEPT !.alias = TRUE]
                 ELSE adds[n]]

\* Every Directory operation counts as one step and leaves the FileHeaders,
\* the bitmap and the sector store alone: Directory holds no reference to
\* them.  A failed ASSERT has stopped the machine.
DirTick ==
    /\ ~aborted
    /\ nOps < MaxDirOps
    /\ nOps' = nOps + 1
    /\ UNCHANGED fhVars
    /\ UNCHANGED concVars
    /\ UNCHANGED schedVars

Add(name, args) ==
    /\ DirTick
    /\ LET r == AddRun(table, name, args[1], args[2]) IN
       /\ table' = r.tbl
       /\ dlast' = DirRec("Add", name, args, r.ret)
       /\ adds' = AddsAfterAdd(name, args[1], r.ret)
    /\ UNCHANGED dirFile

Remove(name) ==
    /\ DirTick
    /\ LET r == RemoveRun(table, name) IN
       /\ table' = r.tbl
       /\ dlast' = DirRec("Remove", name, NoArgs, r.ret)
       /\ adds' = AddsAfterRemove(name, r.ret)
    /\ UNCHANGED dirFile

\* WriteBack as it would be if it stored the entries in use only.
DirWriteBackInUseOnly ==
    /\ DirTick
    /\ dirFile' = [i \in DOMAIN table |->
                      IF table[i].inUse THEN table[i] ELSE FreshEntry]
    /\ dlast' = DirRec("WriteBack", <<>>, NoArgs, TRUE)
    /\ UNCHANGED <<table, adds>>

DirWriteBack ==
    /\ DirTick
    /\ dirFile' = table
    /\ dlast' = DirRec("WriteBack", <<>>, NoArgs, TRUE)
    /\ UNCHANGED <<table, adds>>

DirFetchFrom ==
    /\ DirTick
    /\ table' = ReadTable(table, dirFile)
    /\ dlast' = DirRec("FetchFrom", <<>>, NoArgs, TRUE)
    /\ adds' = [n \in Names |-> NoAdd]
    /\ UNCHANGED dirFile

NextDir ==
    \/ \E name \in Names, args \in AddArgs : Add(name, args)
    \/ \E name \in Names : Remove(name)
    \/ DirWriteBack
    \/ DirFetchFrom

-----------------------------------------------------------------------------
(* Scheduler. *)

Threads == 1..NumThreads
NULL == 0

\* The priorities a thread may have: the values on both sides of each bound.
Priorities == {L2Bound - 1, L2Bound, L1Bound - 1, L1Bound}

\* The threads on the ready queues.
Ready == Range(ReadyList_L1) \cup Range(ReadyList_L2) \cup Range(ReadyList_L3)

\* Thread::ComparePriority: the thread of higher priority sorts first.
ComparePriority(prio, a, b) ==
    IF prio[a] > prio[b] THEN -1 ELSE IF prio[a] < prio[b] THEN 1 ELSE 0

\* SortedList::Insert: before the first element the item sorts before, so
\* behind the elements it compares equal to.
RECURSIVE InsertAt(_, _, _, _)
InsertAt(prio, list, t, k) ==
    IF k > Len(list) \/ ComparePriority(prio, t, list[k]) < 0
    THEN SubSeq(list, 1, k - 1) \o <<t>> \o SubSeq(list, k, Len(list))
    ELSE InsertAt(prio, list, t, k + 1)

Insert(prio, list, t) == InsertAt(prio, list, t, 1)

\* ReadyToRun as it would be with the bounds tested by > instead of >=.
ReadyToRunRunStrictBounds(prio, l1, l2, l3, t) ==
    IF prio[t] > L1Bound
    THEN [L1 |-> Insert(prio, l1, t), L2 |-> l2, L3 |-> l3]
    ELSE IF prio[t] > L2Bound
    THEN [L1 |-> l1, L2 |-> Insert(prio, l2, t), L3 |-> l3]
    ELSE [L1 |-> l1, L2 |-> l2, L3 |-> Append(l3, t)]

\* Scheduler::ReadyToRun on the three queues.
ReadyToRunRun(prio, l1, l2, l3, t) ==
    IF prio[t] >= L1Bound
    THEN [L1 |-> Insert(prio, l1, t), L2 |-> l2, L3 |-> l3]
    ELSE IF prio[t] >= L2Bound
    THEN [L1 |-> l1, L2 |-> Insert(prio, l2, t), L3 |-> l3]
    ELSE [L1 |-> l1, L2 |-> l2, L3 |-> Append(l3, t)]

\* The search as it would be with L2 looked at before L1.
FindNextToRunL2First(l1, l2, l3) ==
    IF l2 # <<>>
    THEN [ret |-> Head(l2), L1 |-> l1, L2 |-> Tail(l2), L3 |-> l3]
    ELSE IF l1 # <<>>
    THEN [ret |-> Head(l1), L1 |-> Tail(l1), L2 |-> l2, L3 |-> l3]
    ELSE IF l3 # <<>>
    THEN [ret |-> Head(l3), L1 |-> l1, L2 |-> l2, L3 |-> Tail(l3)]
    ELSE [ret |-> NULL, L1 |-> l1, L2 |-> l2, L3 |-> l3]

\* Scheduler::FindNextToRun on the three queues.
FindNextToRunRun(l1, l2, l3) ==
    IF l1 # <<>>
    THEN [ret |-> Head(l1), L1 |-> Tail(l1), L2 |-> l2, L3 |-> l3]
    ELSE IF l2 # <<>>
    THEN [ret |-> Head(l2), L1 |-> l1, L2 |-> Tail(l2), L3 |-> l3]
    ELSE IF l3 # <<>>
    THEN [ret |-> Head(l3), L1 |-> l1, L2 |-> l2, L3 |-> Tail(l3)]
    ELSE [ret |-> NULL, L1 |-> l1, L2 |-> l2, L3 |-> l3]

\* Thread::IncreaseWaitingTime(Ticks) of thread t: st.calls counts the calls;
\* rise[t] tells whether the thread has now waited long enough, and then its
\* priority goes up and the call returns true.
IncreaseWaitingTime(st, t, rise) ==
    [st EXCEPT !.calls[t] = @ + 1,
               !.prio[t] = IF rise[t] THEN Min(@ + AgingStep, MaxPriority) ELSE @,
               !.ret = rise[t]]

\* The loops of lines 208-218, 228-238 and 248-252 from element k of list
\* on: every thread is aged; one whose call returned true and whose priority
\* has reached bound goes to UpdateQueue (st.up), the others to CheckQueue
\* (st.check).  The loop over L1 moves no thread up.
RECURSIVE AgeLoop(_, _, _, _, _, _)
AgeLoop(st, list, k, bound, moves, rise) ==
    IF k > Len(list) THEN st
    ELSE LET t == list[k]
             a == IncreaseWaitingTime(st, t, rise)
         IN  AgeLoop(IF moves /\ a.ret /\ a.prio[t] >= bound
                     THEN [a EXCEPT !.up = Append(@, t)]
                     ELSE [a EXCEPT !.check = Append(@, t)],
                     list, k + 1, bound, moves, rise)

\* The loops of lines 219-222, 239-242, 253-256: CheckQueue put on a list.
RECURSIVE InsertAll(_, _, _, _)
InsertAll(prio, list, items, k) ==
    IF k > Len(items) THEN list
    ELSE InsertAll(prio, Insert(prio, list, items[k]), items, k + 1)

\* AgingThread as it would be if the threads that came up from L3 were still
\* on L2 when L2 is aged.
AgingThreadRunAgesTwice(prio, l1, l2, l3, rise) ==
    LET st0 == [prio |-> prio, calls |-> [t \in Threads |-> 0], ret |-> FALSE,
                check |-> <<>>, up |-> <<>>]
        p3 == AgeLoop(st0, l3, 1, L2Bound, TRUE, rise)
        p2 == AgeLoop([p3 EXCEPT !.check = <<>>, !.up = <<>>],
                      InsertAll(p3.prio, l2, p3.up, 1), 1, L1Bound, TRUE, rise)
        p1 == AgeLoop([p2 EXCEPT !.check = p2.up, !.up = <<>>],
                      l1, 1, L1Bound, FALSE, rise)
    IN  [L1 |-> InsertAll(p1.prio, <<>>, p1.check, 1),
         L2 |-> InsertAll(p2.prio, <<>>, p2.check, 1),
         L3 |-> p3.check,
         prio |-> p1.prio, calls |-> p1.calls]

\* Scheduler::AgingThread on the three queues and the priorities.  After each
\* loop the list is rebuilt from CheckQueue and UpdateQueue is poured into
\* CheckQueue, ahead of the threads of the next list.
AgingThreadRun(prio, l1, l2, l3, rise) ==
    LET st0 == [prio |-> prio, calls |-> [t \in Threads |-> 0], ret |-> FALSE,
                check |-> <<>>, up |-> <<>>]
        p3 == AgeLoop(st0, l3, 1, L2Bound, TRUE, rise)
        p2 == AgeLoop([p3 EXCEPT !.check = p3.up, !.up = <<>>],
                      l2, 1, L1Bound, TRUE, rise)
        p1 == AgeLoop([p2 EXCEPT !.check = p2.up, !.up = <<>>],
                      l1, 1, L1Bound, FALSE, rise)
    IN  [L1 |-> InsertAll(p1.prio, <<>>, p1.check, 1),
         L2 |-> InsertAll(p2.prio, <<>>, p2.check, 1),
         L3 |-> p3.check,
         prio |-> p1.prio, calls |-> p1.calls]

\* Run as it would be without the switch of kernel->currentThread.
RunRunKeepsCurrent(cur, tbd, nextThread, finishing) ==
    [abort |-> finishing /\ tbd # NULL,
     toBeDestroyed |-> IF finishing THEN cur ELSE tbd,
     currentThread |-> cur]

\* Scheduler::Run, lines 136-157, on kernel->currentThread and toBeDestroyed:
\* the ASSERT of line 141, the mark of line 142, the switch of line 154.
RunRun(cur, tbd, nextThread, finishing) ==
    IF finishing /\ tbd # NULL
    THEN [abort |-> TRUE, toBeDestroyed |-> tbd, currentThread |-> cur]
    ELSE [abort |-> FALSE,
          toBeDestroyed |-> IF finishing THEN cur ELSE tbd,
          currentThread |-> nextThread]

\* Scheduler::CheckToBeDestroyed: the thread it deletes, if any.
CheckToBeDestroyedRun(tbd) ==
    [deleted |-> IF tbd # NULL THEN {tbd} ELSE {}, toBeDestroyed |-> NULL]

-----------------------------------------------------------------------------
(* The Scheduler operations as steps of the machine. *)

SchedRec(op, t, ret) ==
    [op |-> op, thread |-> t, ret |-> ret,
     L1_0 |-> ReadyList_L1, L2_0 |-> ReadyList_L2, L3_0 |-> ReadyList_L3,
     current0 |-> currentThread, toBeDestroyed0 |-> toBeDestroyed]

NoSched ==
    [op |-> "none", thread |-> NULL, ret |-> NULL,
     L1_0 |-> <<>>, L2_0 |-> <<>>, L3_0 |-> <<>>,
     current0 |-> NULL, toBeDestroyed0 |-> NULL]

SchedFrame ==
    /\ UNCHANGED fhVars
    /\ UNCHANGED nOps
    /\ UNCHANGED dirVars
    /\ UNCHANGED concVars

\* ReadyToRun(thread) of a thread that is not on a ready queue and has not
\* finished.
ReadyToRun(t) ==
    /\ ~aborted /\ ~afterSwitch
    /\ t \notin Ready
    /\ t \notin finished \cup deleted
    /\ LET r == ReadyToRunRun(priority, ReadyList_L1, ReadyList_L2, ReadyList_L3, t) IN
       /\ ReadyList_L1' = r.L1
       /\ ReadyList_L2' = r.L2
       /\ ReadyList_L3' = r.L3
    /\ status' = [status EXCEPT ![t] = "READY"]
    /\ slast' = SchedRec("ReadyToRun", t, NULL)
    /\ UNCHANGED priority
    /\ UNCHANGED runVars
    /\ SchedFrame

FindNextToRun ==
    /\ ~aborted /\ ~afterSwitch
    /\ LET r == FindNextToRunRun(ReadyList_L1, ReadyList_L2, ReadyList_L3) IN
       /\ ReadyList_L1' = r.L1
       /\ ReadyList_L2' = r.L2
       /\ ReadyList_L3' = r.L3
       /\ slast' = SchedRec("FindNextToRun", NULL, r.ret)
    /\ UNCHANGED <<priority, status>>
    /\ UNCHANGED runVars
    /\ SchedFrame

\* Scheduler::Run, lines 136-157: up to the switch to nextThread.  The caller
\* has taken the running thread out of the RUNNING state (Thread::Sleep) unless
\* it has put it on a ready queue (Thread::Yield).
Run(nextThread, finishing) ==
    /\ ~aborted /\ ~afterSwitch
    /\ slast.op = "FindNextToRun"
    /\ nextThread = slast.ret
    /\ nextThread # NULL
    /\ finishing => currentThread \notin Ready \cup {nextThread}
    /\ LET r == RunRun(currentThread, toBeDestroyed, nextThread, finishing) IN
       /\ aborted' = r.abort
       /\ toBeDestroyed' = r.toBeDestroyed
       /\ currentThread' = r.currentThread
       /\ afterSwitch' = ~r.abort
       /\ finished' = IF finishing /\ ~r.abort THEN finished \cup {currentThread}
                      ELSE finished
       /\ status' = IF r.abort THEN status
                    ELSE [t \in Threads |->
                            IF t = r.currentThread THEN "RUNNING"
                            ELSE IF t = currentThread /\ status[t] = "RUNNING"
                            THEN "BLOCKED"
                            ELSE status[t]]
    /\ slast' = SchedRec("Run", nextThread, NULL) @@ [finishing |-> finishing]
    /\ UNCHANGED <<ReadyList_L1, ReadyList_L2, ReadyList_L3, priority, deleted>>
    /\ UNCHANGED <<hdr, freeMap, disk, live, written, last, nOps>>
    /\ UNCHANGED dirVars
    /\ UNCHANGED concVars

\* Scheduler::CheckToBeDestroyed as the thread switched to runs it: line 178
\* when it comes back from SWITCH (or never left, when oldThread is
\* nextThread), the start of ThreadBegin when it runs for the first time.
CheckToBeDestroyed ==
    /\ ~aborted /\ afterSwitch
    /\ LET r == CheckToBeDestroyedRun(toBeDestroyed) IN
       /\ toBeDestroyed' = r.toBeDestroyed
       /\ deleted' = deleted \cup r.deleted
       /\ finished' = finished \ r.deleted
    /\ afterSwitch' = FALSE
    /\ slast' = SchedRec("CheckToBeDestroyed", toBeDestroyed, NULL)
    /\ UNCHANGED <<ReadyList_L1, ReadyList_L2, ReadyList_L3, priority, status,
                   currentThread>>
    /\ SchedFrame

\* AgingThread(Ticks); rise tells which of the ready threads the ticks carry
\* over the waiting time that raises the priority.
AgingThread(rise) ==
    /\ ~aborted /\ ~afterSwitch
    /\ nOps < MaxAging
    /\ nOps' = nOps + 1
    /\ \A t \in Threads \ Ready : ~rise[t]
    /\ LET r == AgingThreadRun(priority, ReadyList_L1, ReadyList_L2, ReadyList_L3,
                               rise)
       IN  /\ ReadyList_L1' = r.L1
           /\ ReadyList_L2' = r.L2
           /\ ReadyList_L3' = r.L3
           /\ priority' = r.prio
           /\ slast' = SchedRec("AgingThread", NULL, NULL)
                           @@ [priority0 |-> priority, calls |-> r.calls]
    /\ UNCHANGED status
    /\ UNCHANGED runVars
    /\ UNCHANGED fhVars
    /\ UNCHANGED dirVars
    /\ UNCHANGED concVars

NextSched ==
    \/ \E t \in Threads : ReadyToRun(t)
    \/ FindNextToRun

NextAging ==
    \/ \E t \in Threads : ReadyToRun(t)
    \/ FindNextToRun
    \/ \E rise \in [Threads -> BOOLEAN] : AgingThread(rise)

NextRun ==
    \/ \E t \in Threads : ReadyToRun(t)
    \/ FindNextToRun
    \/ \E nextThread \in Threads, finishing \in BOOLEAN : Run(nextThread, finishing)
    \/ CheckToBeDestroyed

-----------------------------------------------------------------------------
(* The specifications. *)

Init ==
    /\ hdr = [h \in Hdrs |-> FreshHdr]
    /\ freeMap = {}
    /\ disk = [s \in Sectors \cup HdrSectors |-> <<>>]
    /\ aborted = FALSE
    /\ live = [h \in Hdrs |-> FALSE]
    /\ written = [s \in HdrSectors |-> [hd |-> FreshHdr, live |-> FALSE]]
    /\ last = NoOp
    /\ nOps = 0
    /\ table = FreshTable
    /\ dirFile = <<>>
    /\ dlast = [op |-> "none", name |-> <<>>, sector |-> -1, isDirectory |-> FALSE,
                ret |-> FALSE, table0 |-> FreshTable, file0 |-> <<>>,
                map0 |-> {}, disk0 |-> [s \in Sectors \cup HdrSectors |-> <<>>],
                at |-> 0]
    /\ adds = [n \in Names |-> NoAdd]
    /\ pc = [h \in Hdrs |-> "idle"]
    /\ loc = [h \in Hdrs |-> NoLoc]
    /\ exclusion = TRUE
    /\ ReadyList_L1 = <<>>
    /\ ReadyList_L2 = <<>>
    /\ ReadyList_L3 = <<>>
    /\ priority = [t \in Threads |-> L2Bound]
    /\ status = [t \in Threads |-> IF t = 1 THEN "RUNNING" ELSE "JUST_CREATED"]
    /\ slast = NoSched
    /\ currentThread = 1
    /\ toBeDestroyed = NULL
    /\ finished = {}
    /\ deleted = {}
    /\ afterSwitch = FALSE

\* FileHeaders on one bitmap and one sector store, any operation at any time.
SpecFH == Init /\ [][NextFH]_vars

\* FileHeaders on one bitmap, each allocated and deallocated in turn.
SpecAD == Init /\ [][NextAD]_vars

\* One Directory and the file that backs it.
SpecDir == Init /\ [][NextDir]_vars

\* Files and their Directory entries: a FileHeader is allocated and written
\* to its sector, names are added for that sector and removed again.
NextFS ==
    \/ \E h \in Hdrs, fileSize \in FileSizes : AllocateNew(h, fileSize)
    \/ \E h \in Hdrs, sector \in HdrSectors : WriteBack(h, sector)
    \/ \E name \in Names, sector \in HdrSectors : Add(name, <<sector, FALSE>>)
    \/ \E name \in Names : Remove(name)

SpecFS == Init /\ [][NextFS]_vars

\* Two Allocates on one bitmap, statement by statement, with or without a
\* lock around each call; the bitmap starts with its lowest sectors marked.
InitConc ==
    /\ hdr = [h \in Hdrs |-> FreshHdr]
    /\ freeMap \in {0..(k - 1) : k \in 0..NumDiskSectors}
    /\ disk = [s \in Sectors \cup HdrSectors |-> <<>>]
    /\ aborted = FALSE
    /\ live = [h \in Hdrs |-> FALSE]
    /\ written = [s \in HdrSectors |-> [hd |-> FreshHdr, live |-> FALSE]]
    /\ last = NoOp
    /\ nOps = 0
    /\ table = FreshTable
    /\ dirFile = <<>>
    /\ dlast = [op |-> "none", name |-> <<>>, sector |-> -1, isDirectory |-> FALSE,
                ret |-> FALSE, table0 |-> FreshTable, file0 |-> <<>>,
                map0 |-> {}, disk0 |-> [s \in Sectors \cup HdrSectors |-> <<>>],
                at |-> 0]
    /\ adds = [n \in Names |-> NoAdd]
    /\ pc = [h \in Hdrs |-> "idle"]
    /\ loc = [h \in Hdrs |-> NoLoc]
    /\ exclusion \in BOOLEAN
    /\ ReadyList_L1 = <<>>
    /\ ReadyList_L2 = <<>>
    /\ ReadyList_L3 = <<>>
    /\ priority = [t \in Threads |-> L2Bound]
    /\ status = [t \in Threads |-> IF t = 1 THEN "RUNNING" ELSE "JUST_CREATED"]
    /\ slast = NoSched
    /\ currentThread = 1
    /\ toBeDestroyed = NULL
    /\ finished = {}
    /\ deleted = {}
    /\ afterSwitch = FALSE

SpecConc == InitConc /\ [][NextConc]_vars

\* The scheduler with no ready thread; every thread has one of the priorities.
InitSched ==
    /\ hdr = [h \in Hdrs |-> FreshHdr]
    /\ freeMap = {}
    /\ disk = [s \in Sectors \cup HdrSectors |-> <<>>]
    /\ aborted = FALSE
    /\ live = [h \in Hdrs |-> FALSE]
    /\ written = [s \in HdrSectors |-> [hd |-> FreshHdr, live |-> FALSE]]
    /\ last = NoOp
    /\ nOps = 0
    /\ table = FreshTable
    /\ dirFile = <<>>
    /\ dlast = [op |-> "none", name |-> <<>>, sector |-> -1, isDirectory |-> FALSE,
                ret |-> FALSE, table0 |-> FreshTable, file0 |-> <<>>,
                map0 |-> {}, disk0 |-> [s \in Sectors \cup HdrSectors |-> <<>>],
                at |-> 0]
    /\ adds = [n \in Names |-> NoAdd]
    /\ pc = [h \in Hdrs |-> "idle"]
    /\ loc = [h \in Hdrs |-> NoLoc]
    /\ exclusion = TRUE
    /\ ReadyList_L1 = <<>>
    /\ ReadyList_L2 = <<>>
    /\ ReadyList_L3 = <<>>
    /\ priority \in [Threads -> Priorities]
    /\ status = [t \in Threads |-> IF t = 1 THEN "RUNNING" ELSE "JUST_CREATED"]
    /\ slast = NoSched
    /\ currentThread = 1
    /\ toBeDestroyed = NULL
    /\ finished = {}
    /\ deleted = {}
    /\ afterSwitch = FALSE

SpecSched == InitSched /\ [][NextSched]_vars

\* The scheduler with the threads it dispatches and destroys; every thread's
\* priority is in the lowest or in the highest band.
InitRun ==
    /\ hdr = [h \in Hdrs |-> FreshHdr]
    /\ freeMap = {}
    /\ disk = [s \in Sectors \cup HdrSectors |-> <<>>]
    /\ aborted = FALSE
    /\ live = [h \in Hdrs |-> FALSE]
    /\ written = [s \in HdrSectors |-> [hd |-> FreshHdr, live |-> FALSE]]
    /\ last = NoOp
    /\ nOps = 0
    /\ table = FreshTable
    /\ dirFile = <<>>
    /\ dlast = [op |-> "none", name |-> <<>>, sector |-> -1, isDirectory |-> FALSE,
                ret |-> FALSE, table0 |-> FreshTable, file0 |-> <<>>,
                map0 |-> {}, disk0 |-> [s \in Sectors \cup HdrSectors |-> <<>>],
                at |-> 0]
    /\ adds = [n \in Names |-> NoAdd]
    /\ pc = [h \in Hdrs |-> "idle"]
    /\ loc = [h \in Hdrs |-> NoLoc]
    /\ exclusion = TRUE
    /\ ReadyList_L1 = <<>>
    /\ ReadyList_L2 = <<>>
    /\ ReadyList_L3 = <<>>
    /\ priority \in [Threads -> {L2Bound - 1, L1Bound}]
    /\ status = [t \in Threads |-> IF t = 1 THEN "RUNNING" ELSE "JUST_CREATED"]
    /\ slast = NoSched
    /\ currentThread = 1
    /\ toBeDestroyed = NULL
    /\ finished = {}
    /\ deleted = {}
    /\ afterSwitch = FALSE

SpecRun == InitRun /\ [][NextRun]_vars

\* The scheduler with the aging of the ready threads; the threads are
\* numbered in the order of their priorities, and become ready in any order.
InitAging ==
    /\ hdr = [h \in Hdrs |-> FreshHdr]
    /\ freeMap = {}
    /\ disk = [s \in Sectors \cup HdrSectors |-> <<>>]
    /\ aborted = FALSE
    /\ live = [h \in Hdrs |-> FALSE]
    /\ written = [s \in HdrSectors |-> [hd |-> FreshHdr, live |-> FALSE]]
    /\ last = NoOp
    /\ nOps = 0
    /\ table = FreshTable
    /\ dirFile = <<>>
    /\ dlast = [op |-> "none", name |-> <<>>, sector |-> -1, isDirectory |-> FALSE,
                ret |-> FALSE, table0 |-> FreshTable, file0 |-> <<>>,
                map0 |-> {}, disk0 |-> [s \in Sectors \cup HdrSectors |-> <<>>],
                at |-> 0]
    /\ adds = [n \in Names |-> NoAdd]
    /\ pc = [h \in Hdrs |-> "idle"]
    /\ loc = [h \in Hdrs |-> NoLoc]
    /\ exclusion = TRUE
    /\ ReadyList_L1 = <<>>
    /\ ReadyList_L2 = <<>>
    /\ ReadyList_L3 = <<>>
    /\ priority \in {p \in [Threads -> Priorities] :
                       \A t \in Threads, u \in Threads : t < u => p[t] <= p[u]}
    /\ status = [t \in Threads |-> IF t = 1 THEN "RUNNING" ELSE "JUST_CREATED"]
    /\ slast = NoSched
    /\ currentThread = 1
    /\ toBeDestroyed = NULL
    /\ finished = {}
    /\ deleted = {}
    /\ afterSwitch = FALSE

SpecAging == InitAging /\ [][NextAging]_vars

-----------------------------------------------------------------------------
(* What the claims speak of. *)

\* The data sectors a FileHeader can address.
CapacitySectors == NumDirect + NumIndirect * NumSectorForBlock

KeptRead == [kept |-> TRUE, val |-> 0]

\* The sectors header hd names, with the disk as it is: its direct sectors,
\* its indirection-block sectors and the sectors those blocks name.
DirectOf(hd) ==
    {DirectAt(hd, i, KeptRead) : i \in 0..(hd.numDirectSectors - 1)}
BlocksOf(hd) ==
    {IndirectAt(hd, i, KeptRead) : i \in 0..(hd.numIndirectSectors - 1)}
BlockEntriesOf(hd, dsk) ==
    UNION {Range(ReadBlock(dsk, s)) : s \in BlocksOf(hd)}
Referenced(hd, dsk) == DirectOf(hd) \cup BlocksOf(hd) \cup BlockEntriesOf(hd, dsk)

\* The header fields the claims name.
Meta(hd) ==
    <<hd.numBytes, hd.numSectors, hd.numDirectSectors, hd.numIndirectSectors,
      hd.DirectSectors, hd.IndirectSectors>>

\* The k-th (from 0) data sector among the sectors an Allocate marked, in the
\* order it marked them: the direct sectors, then for every indirection block
\* the block's own sector followed by the sectors it names.
DataSectorAt(marked, hd, k) ==
    IF k < hd.numDirectSectors THEN marked[k + 1]
    ELSE LET r == k - hd.numDirectSectors IN
         marked[hd.numDirectSectors
                + (r \div NumSectorForBlock) * (NumSectorForBlock + 1)
                + 1 + (r % NumSectorForBlock) + 1]

\* The sectors ByteToSector returns over the offsets below n.
Visited(hd, dsk, n, g) == {ByteToSectorVia(hd, dsk, o, g) : o \in 0..(n - 1)}

-----------------------------------------------------------------------------
(* FileHeader claims. *)

\* C1: an Allocate on a freshly constructed header followed at once by
\* Deallocate of the same header completes, leaves the bitmap exactly as it
\* was before the Allocate (so the free count is back and no sector that was
\* free stays marked) and clears no sector twice, whatever the file size.
C1_AllocateThenDeallocateRestores ==
    (/\ last.op = "Deallocate"
     /\ last.prev.op = "Allocate"
     /\ last.prev.h = last.h
     /\ last.prev.hdr0 = FreshHdr)
    => /\ last.ret # "abort"
       /\ freeMap = last.prev.map0
       /\ NoDup(last.cleared)

\* C2: an Allocate that returns false for want of free sectors leaves the
\* bitmap and every field of the header as they were before the call.
C2_FailedAllocateChangesNothing ==
    (last.op = "Allocate" /\ last.ret = "false")
    => /\ freeMap = last.map0
       /\ Meta(hdr[last.h]) = Meta(last.hdr0)

\* C3, for the file sizes a header can hold: Allocate is all-or-nothing: it
\* never ends in a failure (a false return or a failed ASSERT) with a sector
\* left marked.
C3_AllocateAllOrNothing ==
    (/\ last.op = "Allocate"
     /\ last.ret # "true"
     /\ hdr[last.h].numSectors <= CapacitySectors)
    => /\ last.marked = <<>>
       /\ freeMap = last.map0

\* C4, for the file sizes a header can hold: the number of clear bits equals
\* the number of sectors that no live FileHeader names as direct sector,
\* indirection-block sector or sector of an indirection block.
C4_ClearBitsAreUnreferenced ==
    (\A h \in Hdrs : hdr[h].numSectors <= CapacitySectors)
    => NumClear(freeMap) =
           Cardinality(Sectors \ UNION {Referenced(hdr[h], disk) :
                                           h \in {x \in Hdrs : live[x]}})

\* C5 as stated: after a successful Allocate the sectors ByteToSector returns
\* over the offsets 0 .. numBytes - 1 are exactly the sectors this Allocate
\* marked in the bitmap.
C5_VisitsExactlyMarked ==
    (last.op = "Allocate" /\ last.ret = "true")
    => \A g \in ReadChoices(hdr[last.h]) :
           Visited(hdr[last.h], disk, hdr[last.h].numBytes, g) = Range(last.marked)

\* C5 as amended: after a successful Allocate, ByteToSector of an offset below
\* numBytes that lies within the header's capacity is the data sector number
\* offset / SectorSize of this Allocate (its direct sectors, then the sectors
\* its indirection blocks name, in the order obtained): through DirectSectors
\* below SectorSize * numDirectSectors, through an indirection block above.
\* So these offsets visit exactly the first numSectors data sectors; the
\* indirection-block sectors and the unused tail of the last block are marked
\* but never returned.
C5_VisitsExactlyDataSectors ==
    (last.op = "Allocate" /\ last.ret = "true")
    => LET hd == hdr[last.h]
           n == Min(hd.numBytes, CapacitySectors * SectorSize)
       IN  \A g \in ReadChoices(hd) :
             /\ \A o \in 0..(n - 1) :
                  /\ ByteToSectorVia(hd, disk, o, g)
                         = DataSectorAt(last.marked, hd, o \div SectorSize)
                  /\ o < SectorSize * hd.numDirectSectors
                         => ByteToSectorVia(hd, disk, o, g)
                                = hd.DirectSectors[(o \div SectorSize) + 1]
                  /\ ~(o < SectorSize * hd.numDirectSectors)
                         => ByteToSectorVia(hd, disk, o, g)
                                \in BlockEntriesOf(hd, disk)
             /\ Visited(hd, disk, n, g)
                    = {DataSectorAt(last.marked, hd, k) :
                           k \in 0..(Min(hd.numSectors, CapacitySectors) - 1)}
             /\ Visited(hd, disk, n, g) \subseteq Range(last.marked)

\* C5 witness: a successful Allocate of a file that needs an indirection
\* block whose last entries lie beyond numSectors.
C5_Witness ==
    /\ last.op = "Allocate" /\ last.ret = "true"
    /\ hdr[last.h].numIndirectSectors = 1
    /\ hdr[last.h].numSectors < NumDirect + NumSectorForBlock
    /\ last.map0 # {}

\* numDirectSectors and numIndirectSectors as the data model fixes them.
CountsOK(hd) ==
    /\ hd.numDirectSectors = Min(hd.numSectors, NumDirect)
    /\ hd.numIndirectSectors =
           IF hd.numSectors > NumDirect
           THEN divRoundUp(hd.numSectors - NumDirect, NumSectorForBlock)
           ELSE 0

\* C6: after every successful Allocate, and after every FetchFrom of a header
\* that was written back after a successful Allocate, the two counts are
\* min(numSectors, NumDirect) and ceil((numSectors - NumDirect) /
\* NumSectorForBlock), or 0 when numSectors <= NumDirect.
C6_CountsAfterAllocateAndFetch ==
    /\ (last.op = "Allocate" /\ last.ret = "true") => CountsOK(hdr[last.h])
    /\ (last.op = "FetchFrom" /\ written[last.arg].live) => CountsOK(hdr[last.h])

\* C7: a FetchFrom into a freshly constructed FileHeader of a sector that an
\* allocated FileHeader was written back to yields the metadata of the
\* original, and Deallocate and ByteToSector act on the copy as on the
\* original; a FetchFrom of a written Directory yields the table written.
C7_WriteBackFetchFromRoundTrip ==
    /\ (/\ last.op = "FetchFrom"
        /\ last.hdr0 = FreshHdr
        /\ written[last.arg].live)
       => LET orig == written[last.arg].hd
              copy == hdr[last.h]
          IN  /\ Meta(copy) = Meta(orig)
              /\ DeallocateRun(copy, freeMap, disk, KeptRead).map
                     = DeallocateRun(orig, freeMap, disk, KeptRead).map
    /\ (dlast.op = "FetchFrom" /\ Len(dlast.file0) = TableSize)
       => table = dlast.file0

-----------------------------------------------------------------------------
(* Directory claims. *)

InUseCount(tbl) == Cardinality({i \in DOMAIN tbl : tbl[i].inUse})

\* C8 as stated: once Add(name, sector, isDirectory) has returned true,
\* Find(name) is that sector, and stays so over every Add and Remove of
\* another name, until a Remove(name) returns true.
C8_FindReturnsAddedSector ==
    \A n \in Names : adds[n].sector # -1 => Find(table, n) = adds[n].sector

\* C8 as amended: once Add(name, sector, isDirectory) has returned true,
\* Find(name) is that sector at once, and stays so over every Add and Remove
\* until a Remove returns true for name or for a name with the same first
\* FileNameMaxLen characters; and an Add or Remove of a name that differs
\* from name within those characters never changes Find(name).
C8_FindReturnsAddedSectorUntilRemoved ==
    /\ \A n \in Names :
           (adds[n].sector # -1 /\ ~adds[n].alias) => Find(table, n) = adds[n].sector
    /\ (dlast.op = "Add" /\ dlast.ret) => Find(table, dlast.name) = dlast.sector
    /\ dlast.op \in {"Add", "Remove"}
           => \A n \in Names :
                  (~SameStored(n, dlast.name) /\ Find(dlast.table0, n) # -1)
                      => Find(table, n) = Find(dlast.table0, n)

\* C8 witness: a name was added, then another name was added and removed
\* again, and the first name's Add still stands.
C8_Witness ==
    /\ dlast.op = "Remove" /\ dlast.ret
    /\ \E n \in Names :
           /\ adds[n].sector # -1 /\ ~adds[n].alias
           /\ ~SameStored(n, dlast.name)
           /\ Find(table, n) = adds[n].sector
           /\ InUseCount(dlast.table0) = 2

\* C9: an Add of a name that an in-use entry already holds, or into a table
\* whose slots are all in use, returns false and leaves every slot as it was;
\* every Add that returns true takes exactly one more slot into use, so after
\* TableSize successful Adds without a Remove every further Add fails.
C9_AddFailsOnDuplicateOrFull ==
    /\ (/\ dlast.op = "Add"
        /\ \/ FindIndex(dlast.table0, dlast.name) # -1
           \/ InUseCount(dlast.table0) = TableSize)
       => (~dlast.ret /\ table = dlast.table0)
    /\ (dlast.op = "Add" /\ dlast.ret)
       => InUseCount(table) = InUseCount(dlast.table0) + 1
    /\ InUseCount(table) = TableSize
       => \A n \in Names, a \in AddArgs :
              LET r == AddRun(table, n, a[1], a[2]) IN ~r.ret /\ r.tbl = table

\* C9 witness: an Add of a name that is not in the table fails because every
\* slot is in use.
C9_Witness ==
    /\ dlast.op = "Add" /\ ~dlast.ret
    /\ FindIndex(dlast.table0, dlast.name) = -1
    /\ InUseCount(dlast.table0) = TableSize
    /\ table = dlast.table0

\* What C10 says of a Remove(name), the names in others being the other names.
RemoveEffect(others) ==
    dlast.op = "Remove"
    => /\ dlast.ret <=> (FindIndex(dlast.table0, dlast.name) # -1)
       /\ dlast.ret
             => /\ Find(table, dlast.name) = -1
                /\ ~RemoveRun(table, dlast.name).ret
                /\ \A n \in others : Find(table, n) = Find(dlast.table0, n)
       /\ ~dlast.ret => table = dlast.table0

\* C10 as stated: Remove(name) returns true exactly when FindIndex finds
\* name; after a successful Remove, Find(name) is -1, a Remove(name) repeated
\* at once returns false and Find of every other name is as before; a Remove
\* of an absent name changes nothing.
C10_RemoveLeavesOtherNames ==
    RemoveEffect(Names \ {dlast.name})

\* C10 as amended: the same, the other names being the names that differ from
\* name within their first FileNameMaxLen characters; Find of a name that
\* agrees with name on those characters becomes -1 like Find(name).
C10_RemoveLeavesOtherStoredNames ==
    /\ RemoveEffect({n \in Names : ~SameStored(n, dlast.name)})
    /\ (dlast.op = "Remove" /\ dlast.ret)
       => \A n \in Names : SameStored(n, dlast.name) => Find(table, n) = -1

\* C10 witness: a successful Remove from a table that held two entries.
C10_Witness ==
    /\ dlast.op = "Remove" /\ dlast.ret
    /\ InUseCount(dlast.table0) = 2
    /\ \E n \in Names : Find(table, n) # -1

\* C11: in every table reached from the empty Directory no two in-use entries
\* hold the same name, and at most TableSize entries are in use.
C11_NamesUniqueAndBounded ==
    /\ \A i, j \in DOMAIN table :
           (i # j /\ table[i].inUse /\ table[j].inUse)
               => /\ table[i].name # table[j].name
                  /\ ~SameStored(table[i].name, table[j].name)
    /\ Len(table) = TableSize
    /\ InUseCount(table) <= TableSize

\* C11 witness: a table with two entries in use on which an Add of a name it
\* holds has just been refused.
C11_Witness ==
    /\ dlast.op = "Add" /\ ~dlast.ret
    /\ FindIndex(dlast.table0, dlast.name) # -1
    /\ InUseCount(table) >= 2

-----------------------------------------------------------------------------
(* FileHeader claims, continued. *)

\* What a file of fileSize bytes takes with sectors of ss bytes, nd direct
\* slots and nb sector numbers per indirection block: its direct sectors, its
\* indirection blocks and the data sectors those blocks name.
Takes(fileSize, ss, nd, nb) ==
    LET n == divRoundUp(fileSize, ss)
        blocks == IF n > nd THEN divRoundUp(n - nd, nb) ELSE 0
    IN  [direct |-> Min(n, nd), blocks |-> blocks, named |-> blocks * nb]

\* C12: a successful Allocate marks min(numSectors, NumDirect) direct sectors
\* and, per needed indirection block, the block's sector and a full
\* NumSectorForBlock data sectors, all of them clear before and none twice;
\* the header and the blocks on the disk name them in the order obtained.
\* With sectors of 128 bytes, 10 direct slots and 32 numbers per block a file
\* of 5 * 128 bytes takes 5 sectors and no block, one of 15 * 128 bytes takes
\* 10 direct sectors, 1 block and 32 sectors named by the block.
C12_AllocateMarksFullBlocks ==
    /\ Takes(5 * 128, 128, 10, 32) = [direct |-> 5, blocks |-> 0, named |-> 0]
    /\ Takes(15 * 128, 128, 10, 32) = [direct |-> 10, blocks |-> 1, named |-> 32]
    /\ (last.op = "Allocate" /\ last.ret = "true")
       => LET hd == hdr[last.h]
              t == Takes(hd.numBytes, SectorSize, NumDirect, NumSectorForBlock)
              m == last.marked
              at(b) == t.direct + b * (NumSectorForBlock + 1)
          IN  /\ hd.numDirectSectors = t.direct
              /\ hd.numIndirectSectors = t.blocks
              /\ Len(m) = t.direct + t.blocks + t.named
              /\ NoDup(m)
              /\ Range(m) \cap last.map0 = {}
              /\ freeMap = last.map0 \cup Range(m)
              /\ \A i \in 0..(t.direct - 1) : hd.DirectSectors[i + 1] = m[i + 1]
              /\ \A b \in 0..(t.blocks - 1) :
                    /\ IndirectAt(hd, b, KeptRead) = m[at(b) + 1]
                    /\ \A j \in 1..NumSectorForBlock :
                          ReadBlock(disk, m[at(b) + 1])[j] = m[at(b) + 1 + j]

\* C12 witness: a successful Allocate of 5 sectors: 2 direct sectors and two
\* blocks, the second with one entry beyond numSectors, 8 sectors in all.
C12_Witness ==
    /\ last.op = "Allocate" /\ last.ret = "true"
    /\ hdr[last.h].numSectors = 5
    /\ hdr[last.h].numIndirectSectors = 2
    /\ Len(last.marked) = 8

C16_UnusedSlotsHoldSentinel ==
    \A h \in Hdrs :
        /\ \A i \in 0..(NumDirect - 1) :
               i >= hdr[h].numDirectSectors => hdr[h].DirectSectors[i + 1] = -1
        /\ \A i \in 0..(NumIndirect - 1) :
               i >= hdr[h].numIndirectSectors => hdr[h].IndirectSectors[i + 1] = -1

\* C18: after a successful Allocate, ByteToSector of every offset below
\* numBytes is the data sector number offset / SectorSize that this Allocate
\* obtained (its indirection-block sectors not counted), whatever a read of
\* IndirectSectors past the end of the array returns.
C18_KthSectorIsKthDataSector ==
    (last.op = "Allocate" /\ last.ret = "true")
    => LET hd == hdr[last.h] IN
       \A g \in ReadChoices(hd) : \A o \in 0..(hd.numBytes - 1) :
           ByteToSectorVia(hd, disk, o, g)
               = DataSectorAt(last.marked, hd, o \div SectorSize)

\* C22: after every successful Allocate numIndirectSectors is at most
\* NumIndirect and nothing was stored past the end of IndirectSectors; an
\* Allocate of a size above the capacity of a header returns false.
C22_AllocateStaysWithinIndirectSectors ==
    last.op = "Allocate" =>
        /\ last.ret = "true" =>
              /\ hdr[last.h].numIndirectSectors <= NumIndirect
              /\ hdr[last.h].beyond = <<>>
        /\ last.arg > CapacitySectors * SectorSize => last.ret = "false"

\* The sector numbers header hd names, one by one: its direct sectors, then
\* per indirection block the block's sector and the entries of the block; g
\* decides a read past the end of the object.
RECURSIVE BlockRefs(_, _, _, _)
BlockRefs(hd, dsk, i, g) ==
    IF i >= hd.numIndirectSectors THEN <<>>
    ELSE <<IndirectAt(hd, i, g)>> \o ReadBlock(dsk, IndirectAt(hd, i, g))
             \o BlockRefs(hd, dsk, i + 1, g)

Refs(hd, dsk, g) ==
    [i \in 1..Max(hd.numDirectSectors, 0) |-> DirectAt(hd, i - 1, g)]
        \o BlockRefs(hd, dsk, 0, g)

LiveHdrs == {h \in Hdrs : live[h]}

\* C23: while every Allocate and Deallocate has succeeded, the sector numbers
\* one live header names are pairwise distinct and no sector is named by two
\* live headers.
C23_LiveHeadersNameDistinctSectors ==
    ~aborted =>
        /\ \A h \in LiveHdrs : \A g \in ReadChoices(hdr[h]) :
              NoDup(Refs(hdr[h], disk, g))
        /\ \A h \in LiveHdrs : \A o \in LiveHdrs \ {h} :
              \A g \in ReadChoices(hdr[h]) : \A k \in ReadChoices(hdr[o]) :
                  Range(Refs(hdr[h], disk, g)) \cap Range(Refs(hdr[o], disk, k)) = {}

\* A request that needs only direct sectors and has passed line 72.
DirectOnly(h) ==
    /\ pc[h] \in {"direct", "done", "abort"}
    /\ hdr[h].numSectors \in 1..NumDirect

\* C17: an Allocate that needs only direct sectors gets -1 from FindAndSet
\* only when no lock is in use: with a lock around each call two Allocates
\* are never under way together, a call that passed the free-count check
\* finds every sector it needs, and no FindAndSet fails; without the lock
\* both calls can pass the check on a bitmap that cannot satisfy both.
C17_DirectOnlyFailsOnlyWithoutExclusion ==
    /\ exclusion => \A h \in Callers : \A o \in Callers \ {h} :
                        ~(Running(h) /\ Running(o))
    /\ \A h \in Callers :
          DirectOnly(h) /\ exclusion =>
              /\ pc[h] # "abort"
              /\ pc[h] = "direct" =>
                     NumClear(freeMap) >= hdr[h].numDirectSectors - loc[h].i

\* Without the lock: both calls need only direct sectors and passed the
\* check, the bitmap is full, and one call got -1 after it had marked a sector.
C17_Witness ==
    /\ ~exclusion
    /\ \A h \in Callers : DirectOnly(h)
    /\ NumClear(freeMap) = 0
    /\ \E h \in Callers : pc[h] = "abort" /\ loc[h].marked # <<>>

-----------------------------------------------------------------------------
(* Directory claims, continued. *)

\* The name buffer that holds name: its first FileNameMaxLen characters,
\* padded with NULs.
Stored(name) ==
    [i \in 1..(FileNameMaxLen + 1) |->
        IF i <= FileNameMaxLen THEN CharAt(name, i) ELSE NUL]

\* C14: a name is stored cut to FileNameMaxLen characters, and for two names
\* n and m that agree on their first FileNameMaxLen characters, once Add(n)
\* has returned true, Add(m) returns false and changes nothing, Find(m) is
\* the sector added with n, and Remove(m) returns true and removes the entry
\* of n.
C14_TruncatedNamesAreOneName ==
    /\ (dlast.op = "Add" /\ dlast.ret)
       => /\ FindIndex(table, dlast.name) # -1
          /\ table[FindIndex(table, dlast.name) + 1].name = Stored(dlast.name)
    /\ \A n, m \in Names :
           (adds[n].sector # -1 /\ ~adds[n].alias /\ SameStored(n, m))
           => /\ \A a \in AddArgs :
                    AddRun(table, m, a[1], a[2]) = [tbl |-> table, ret |-> FALSE]
              /\ FindIndex(table, m) = FindIndex(table, n)
              /\ Find(table, m) = adds[n].sector
              /\ RemoveRun(table, m).ret
              /\ Find(RemoveRun(table, m).tbl, n) = -1

\* C14 witness: of two names longer than FileNameMaxLen that agree on their
\* first FileNameMaxLen characters one was added, and a Remove of the other
\* has returned true.
C14_Witness ==
    /\ dlast.op = "Remove" /\ dlast.ret
    /\ Len(dlast.name) > FileNameMaxLen
    /\ \E n \in Names :
           /\ n # dlast.name /\ Len(n) > FileNameMaxLen
           /\ SameStored(n, dlast.name)
           /\ adds[n].sector # -1 /\ adds[n].alias
           /\ Find(dlast.table0, n) = adds[n].sector
           /\ Find(table, n) = -1

\* C15: in the state it leaves, a Remove that returned true has changed the
\* in-use flag and the name buffer of the slot it found and nothing else: the
\* slot keeps its sector
\* and its isDirectory flag, the other slots, the bitmap and the sector store
\* are as before, and the sectors that the FileHeader stored in the entry's
\* sector names are still marked.
C15_RemoveOrphansSectors ==
    (dlast.op = "Remove" /\ dlast.ret /\ dlast.at = nOps)
    => LET i == FindIndex(dlast.table0, dlast.name)
           e == dlast.table0[i + 1]
       IN  /\ i # -1
           /\ table = [dlast.table0 EXCEPT ![i + 1].inUse = FALSE,
                                            ![i + 1].name = EmptyName]
           /\ table[i + 1].sector = e.sector
           /\ table[i + 1].isDirectory = e.isDirectory
           /\ freeMap = dlast.map0
           /\ disk = dlast.disk0
           /\ (e.sector \in HdrSectors /\ written[e.sector].live)
                 => /\ ReadSector(disk, e.sector) = HdrWords(written[e.sector].hd)
                    /\ Referenced(FetchRun(FreshHdr, disk, e.sector), disk)
                           \subseteq freeMap

\* C15 witness: the entry of a file that holds sectors was removed, and the
\* sectors are marked although no entry names the file.
C15_Witness ==
    /\ dlast.op = "Remove" /\ dlast.ret /\ dlast.at = nOps
    /\ InUseCount(table) = 0
    /\ \E s \in HdrSectors :
           /\ dlast.table0[FindIndex(dlast.table0, dlast.name) + 1].sector = s
           /\ written[s].live
           /\ written[s].hd.numIndirectSectors >= 1
           /\ Referenced(written[s].hd, disk) \subseteq freeMap
           /\ freeMap # {}

\* C19: Add, Remove and FetchFrom leave the stored copy of the directory as it
\* was, and Add and Remove leave the bitmap and the sector store as they were;
\* WriteBack makes the stored copy equal to the table and leaves the table;
\* after a FetchFrom of a directory that has been written the table is the
\* copy last written, whatever Adds and Removes were made since.
C19_StoredCopyChangesOnlyInWriteBack ==
    /\ dlast.op \in {"Add", "Remove", "FetchFrom"} => dirFile = dlast.file0
    /\ dlast.op \in {"Add", "Remove"} => freeMap = dlast.map0 /\ disk = dlast.disk0
    /\ dlast.op = "WriteBack" => dirFile = table /\ table = dlast.table0
    /\ dlast.op = "FetchFrom" /\ dirFile # <<>> => table = dirFile

\* A FetchFrom that discarded changes: the table differed from the copy written.
C19_Witness ==
    /\ dlast.op = "FetchFrom"
    /\ dirFile # <<>>
    /\ dlast.table0 # dirFile
    /\ \E i \in DOMAIN dirFile : dirFile[i].inUse
    /\ table = dirFile

-----------------------------------------------------------------------------
(* Scheduler claims. *)

\* C20: FindNextToRun returns the front thread of L1 when L1 is not empty,
\* else the front thread of L2 when L2 is not empty, else the front thread of
\* L3, and removes it from that queue; it returns NULL exactly when the three
\* queues are empty; the queues it did not take the thread from are as they
\* were.  So a thread of L2 is returned only when L1 was empty and a thread
\* of L3 only when L1 and L2 were empty.
C20_FindNextToRunTakesHighestQueue ==
    slast.op = "FindNextToRun" =>
        /\ slast.L1_0 # <<>> =>
              /\ slast.ret = Head(slast.L1_0)
              /\ ReadyList_L1 = Tail(slast.L1_0)
              /\ ReadyList_L2 = slast.L2_0 /\ ReadyList_L3 = slast.L3_0
        /\ slast.L1_0 = <<>> /\ slast.L2_0 # <<>> =>
              /\ slast.ret = Head(slast.L2_0)
              /\ ReadyList_L2 = Tail(slast.L2_0)
              /\ ReadyList_L1 = slast.L1_0 /\ ReadyList_L3 = slast.L3_0
        /\ slast.L1_0 = <<>> /\ slast.L2_0 = <<>> /\ slast.L3_0 # <<>> =>
              /\ slast.ret = Head(slast.L3_0)
              /\ ReadyList_L3 = Tail(slast.L3_0)
              /\ ReadyList_L1 = slast.L1_0 /\ ReadyList_L2 = slast.L2_0
        /\ slast.ret = NULL <=>
              slast.L1_0 = <<>> /\ slast.L2_0 = <<>> /\ slast.L3_0 = <<>>
        /\ slast.ret = NULL =>
              /\ ReadyList_L1 = <<>> /\ ReadyList_L2 = <<>> /\ ReadyList_L3 = <<>>
        /\ slast.ret \in Range(slast.L2_0) => slast.L1_0 = <<>>
        /\ slast.ret \in Range(slast.L3_0) =>
              slast.L1_0 = <<>> /\ slast.L2_0 = <<>>
        /\ slast.ret # NULL => slast.ret \notin Ready

\* A thread of L2 returned while L3 holds a thread and L2 another one.
C20_Witness ==
    /\ slast.op = "FindNextToRun"
    /\ slast.L1_0 = <<>>
    /\ Len(slast.L2_0) > 1
    /\ slast.L3_0 # <<>>
    /\ slast.ret = Head(slast.L2_0)
    /\ ReadyList_L2 = Tail(slast.L2_0)

\* C21: the ASSERT of Run never fails, so a Run with finishing set finds
\* toBeDestroyed NULL; at most one thread has finished and awaits deletion,
\* and it is the one toBeDestroyed names; that thread is not the running
\* thread once Run has switched, and CheckToBeDestroyed deletes a thread only
\* while another thread is kernel->currentThread.  A deleted thread is neither
\* running nor on a ready queue.
C21_FinishedThreadDeletedAfterSwitch ==
    /\ ~aborted
    /\ slast.op = "Run" /\ slast.finishing =>
          /\ slast.toBeDestroyed0 = NULL
          /\ toBeDestroyed = slast.current0
    /\ Cardinality(finished) <= 1
    /\ finished = {toBeDestroyed} \ {NULL}
    /\ toBeDestroyed # NULL => afterSwitch /\ toBeDestroyed # currentThread
    /\ slast.op = "CheckToBeDestroyed" /\ slast.thread # NULL =>
          /\ slast.thread # slast.current0
          /\ slast.thread \in deleted
          /\ toBeDestroyed = NULL
    /\ currentThread \notin deleted
    /\ Ready \cap deleted = {}

\* A second thread has finished and has just been deleted.
C21_Witness ==
    /\ slast.op = "CheckToBeDestroyed"
    /\ slast.thread # NULL
    /\ Cardinality(deleted) = 2
    /\ currentThread \notin deleted

\* The level of the queue among l1, l2, l3 that holds thread t, 0 for none.
Level(t, l1, l2, l3) ==
    IF t \in Range(l1) THEN 1
    ELSE IF t \in Range(l2) THEN 2
    ELSE IF t \in Range(l3) THEN 3
    ELSE 0

\* C24: after AgingThread the three queues together hold the threads they
\* held before, each once; IncreaseWaitingTime was called once on each of
\* them and on no other thread; each of them is on the queue it was on or on
\* the next higher one (L3 to L2, L2 to L1); the threads that are not ready
\* kept their priority.
C24_AgingThreadConservesReadyThreads ==
    slast.op = "AgingThread" =>
        LET before == Range(slast.L1_0) \cup Range(slast.L2_0) \cup Range(slast.L3_0)
        IN  /\ Ready = before
            /\ NoDup(ReadyList_L1 \o ReadyList_L2 \o ReadyList_L3)
            /\ \A t \in Threads : slast.calls[t] = IF t \in before THEN 1 ELSE 0
            /\ \A t \in before :
                  LET was == Level(t, slast.L1_0, slast.L2_0, slast.L3_0)
                      is == Level(t, ReadyList_L1, ReadyList_L2, ReadyList_L3)
                  IN  is = was \/ is = was - 1
            /\ \A t \in Threads \ before : priority[t] = slast.priority0[t]

\* One call that moved a thread from L3 to L2 and another from L2 to L1 and
\* left a third thread where it was.
C24_Witness ==
    /\ slast.op = "AgingThread"
    /\ \E t \in Range(slast.L3_0) : t \in Range(ReadyList_L2)
    /\ \E t \in Range(slast.L2_0) : t \in Range(ReadyList_L1)
    /\ \E t \in Ready :
          Level(t, slast.L1_0, slast.L2_0, slast.L3_0)
              = Level(t, ReadyList_L1, ReadyList_L2, ReadyList_L3)

=============================================================================
